---- MODULE Spec2Model ----
(***************************************************************************)
(* Model of docker_compose_manager: the tenant registry (TenantManager),   *)
(* the deployment manager (DeploymentManager, which talks to the Docker    *)
(* daemon through self.client) and the batch Orchestrator (a               *)
(* ThreadPoolExecutor driven from asyncio coroutines).                     *)
(*                                                                         *)
(* Strings that the code inspects by prefix (tenant slugs, project names,  *)
(* compose versions) are sequences of tokens, so that str.startswith and   *)
(* the f-string "{tenant}_" are computed, not assumed.                     *)
(***************************************************************************)
EXTENDS Integers, Sequences, FiniteSets, TLC

\* ------------------------------------------------------------------ bounds
MaxQuota == 2
MaxServices == 2
MaxBatch == 2
MaxWorkers == 2
MaxClock == 1
MaxIds == 3

\* ----------------------------------------------------------------- strings
StartsWith(s, prefix) ==
    /\ Len(prefix) <= Len(s)
    /\ SubSeq(s, 1, Len(prefix)) = prefix

acme == <<"acme">>
acme_corp == <<"acme", "_", "corp">>
Slugs == {acme, acme_corp}

\* the project-name convention "{tenant}_{name}"
ProjectName(slug, name) == slug \o <<"_">> \o <<name>>

acme_app1 == ProjectName(acme, "app1")
acme_app2 == ProjectName(acme, "app2")
acme_corp_app1 == ProjectName(acme_corp, "app1")
\* a project whose name begins with the whole name of another
acme_app1_db == acme_app1 \o <<"_", "db">>
Projects == {acme_app1, acme_app2, acme_corp_app1, acme_app1_db}

\* the prefix f"{tenant}_" that list_deployments filters by
TenantPrefix(tenant) == tenant \o <<"_">>

NoProject == <<>>

\* ---------------------------------------------------------------- manifests
\* A compose file as validate_compose_file sees it: whether the path exists,
\* what yaml.safe_load returns (a mapping or something without .get), the
\* value under 'version' ("absent", a token string, or a non-string scalar)
\* and the 'services' key (-1: key absent, k >= 0: a section of k services).
Versions == {<<"absent">>, <<"3">>, <<"3", ".", "8">>, <<"2">>, <<"int">>}

Manifest(exists, kind, version, services) ==
    [exists |-> exists, kind |-> kind, version |-> version,
     services |-> services]

\* every compose file of the shape above
AllManifests ==
    [exists : BOOLEAN, kind : {"mapping", "other"}, version : Versions,
     services : (-1) .. MaxServices]

\* one compose file for each path through validate_compose_file
Manifests ==
    {Manifest(TRUE, "mapping", <<"3", ".", "8">>, n) : n \in (-1) .. MaxServices}
    \cup {Manifest(TRUE, "mapping", v, 1) : v \in Versions}
    \cup {Manifest(FALSE, "mapping", <<"3">>, 1),
          Manifest(TRUE, "other", <<"3">>, 1)}

\* compose_data.get('version', '3')
VersionOf(m) == IF m.version = <<"absent">> THEN <<"3">> ELSE m.version

\* the two ValueErrors validate_compose_file raises, told apart by message
VersionError == "ValueError: Only Docker Compose v3 is supported"
ServicesError == "ValueError: Compose file must contain 'services' section"

validate_compose_file(m) ==
    IF ~m.exists THEN "FileNotFoundError"
    ELSE IF m.kind # "mapping" THEN "AttributeError"
    ELSE IF VersionOf(m) = <<"int">> THEN "AttributeError"
    ELSE IF ~StartsWith(VersionOf(m), <<"3">>) THEN VersionError
    ELSE IF m.services = -1 THEN ServicesError
    ELSE "True"

\* a faulty variant: deploy_compose goes on whatever the file holds
AlwaysValid(m) == TRUE

ValidManifest(m) == validate_compose_file(m) = "True"

\* ------------------------------------------------------------------- state
VARIABLES
    tenants,      \* TenantManager._tenants: slug -> Tenant (or NoTenant)
    store,        \* the files <storage_path>/<slug>.json
    got,          \* the record the last registry call returned
    nextId,       \* source of fresh uuid4 values
    now,          \* datetime.utcnow()
    containers,   \* the Docker daemon behind self.client: id -> container
    tracker,      \* per project, the outcome last reported to the caller
    ret,          \* the last call and what it returned or raised
    max_workers,  \* Orchestrator.max_workers
    queue,        \* ThreadPoolExecutor._work_queue
    dbatch,       \* a deploy_multiple call in flight
    hbatch        \* a health_check_all call in flight

vars == <<tenants, store, got, nextId, now, containers, tracker, ret,
          max_workers, queue, dbatch, hbatch>>

registryVars == <<tenants, store, got, nextId, now>>
orchVars == <<max_workers, queue, dbatch, hbatch>>

\* ------------------------------------------------------------ Tenant model
QuotaValues == 1 .. MaxQuota

\* dict.get(slug) -> None
NoTenant ==
    [id |-> 0, slug |-> <<>>, active |-> FALSE, max_deployments |-> 0,
     max_containers |-> 0, created_at |-> 0, updated_at |-> 0]

\* Tenant(name=..., slug=..., description=...): the dataclass defaults, a fresh
\* uuid4 and two utcnow() stamps; the quota fields are then set from **kwargs.
NewTenant(slug, kw) ==
    [id |-> nextId, slug |-> slug, active |-> TRUE,
     max_deployments |-> kw.max_deployments,
     max_containers |-> kw.max_containers,
     created_at |-> now, updated_at |-> now]

CreateKwargs == [max_deployments : QuotaValues, max_containers : QuotaValues]

\* the attributes update_tenant is called with here, and their values
UpdateKeys == {"max_deployments", "max_containers", "active", "nonexistent"}

\* **kwargs may name any attribute of the dataclass, these among them
IdentityKeys == {"slug", "id"}
StampKeys == {"created_at"}

\* an id no uuid4() call of this run has produced
ForeignId == 0

UpdateValues(key) ==
    IF key = "active" THEN BOOLEAN
    ELSE IF key = "slug" THEN Slugs
    ELSE IF key = "id" THEN {ForeignId}
    ELSE IF key = "created_at" THEN 0 .. MaxClock
    ELSE QuotaValues

\* hasattr(tenant, key) / setattr(tenant, key, value)
SetAttr(t, key, value) ==
    IF key \in DOMAIN t THEN [t EXCEPT ![key] = value] ELSE t

\* the last call: what was called, on what, what it returned or raised, and
\* whether the call before it was the same call on the same argument
Result(op, arg, val) ==
    [op |-> op, arg |-> arg, val |-> val,
     rep |-> (ret.op = op /\ ret.arg = arg), list |-> <<>>]

\* the same for a call that returns a list
ListResult(op, arg, list) == [Result(op, arg, "list") EXCEPT !.list = list]

\* ---------------------------------------------------------- TenantManager
\* datetime.isoformat() writes a stamp as text, datetime.fromisoformat reads
\* it back
Isoformat(stamp) == <<"iso", stamp>>
Fromisoformat(text) == text[2]

\* Tenant.to_dict: every field, the two stamps as text
to_dict(t) ==
    [t EXCEPT !.created_at = Isoformat(t.created_at),
              !.updated_at = Isoformat(t.updated_at)]

\* Tenant.from_dict: cls() and then every key of the file set on it
from_dict(d) ==
    [d EXCEPT !.created_at = Fromisoformat(d.created_at),
              !.updated_at = Fromisoformat(d.updated_at)]

\* no file <slug>.json
NoFile == to_dict(NoTenant)
EmptyStore == [s \in Slugs |-> NoFile]

\* _save_tenant: the file is named after tenant.slug and holds to_dict()
SaveTenant(files, t) == [files EXCEPT ![t.slug] = to_dict(t)]

\* _load_tenants: every *.json file is read and registered under the slug it
\* holds (a file always holds the slug it is named after)
_load_tenants(files) ==
    [s \in Slugs |->
        IF \E f \in Slugs : files[f] # NoFile /\ from_dict(files[f]).slug = s
        THEN from_dict(files[CHOOSE f \in Slugs :
                                 /\ files[f] # NoFile
                                 /\ from_dict(files[f]).slug = s])
        ELSE NoTenant]

\* what a registry call handed back, and whether it was a get_tenant that
\* directly followed the successful create_tenant of the same slug
Returned(t, after_create) == [rec |-> t, after_create |-> after_create]
NothingReturned == Returned(NoTenant, FALSE)

\* a faulty variant: the duplicate check never fires
SlugNeverTaken(registry, slug) == FALSE

\* if slug in self._tenants
SlugTaken(registry, slug) == registry[slug] # NoTenant

create_tenant(slug, kw) ==
    /\ SlugTaken(tenants, slug) \/ nextId <= MaxIds
    /\ IF SlugTaken(tenants, slug)
       THEN /\ ret' = Result("create_tenant", slug, "ValueError")
            /\ UNCHANGED <<tenants, store, got, nextId>>
       ELSE /\ tenants' = [tenants EXCEPT ![slug] = NewTenant(slug, kw)]
            /\ store' = SaveTenant(store, NewTenant(slug, kw))
            /\ got' = Returned(NewTenant(slug, kw), FALSE)
            /\ nextId' = nextId + 1
            /\ ret' = Result("create_tenant", slug, "Tenant")
    /\ UNCHANGED <<now, containers, tracker, orchVars>>

\* a file that open(tenant_file, 'w') has created and json.dump has not
\* completed
PartialFile == [NoFile EXCEPT !.slug = <<"partial">>]

\* create_tenant when _save_tenant raises: open() raises OSError (opened is
\* false), or to_dict() / json.dump raise on the record after open() has
\* created the file. self._tenants[slug] = tenant has run by then.
create_tenant_save_raises(slug, kw, opened) ==
    /\ ~SlugTaken(tenants, slug)
    /\ nextId <= MaxIds
    /\ tenants' = [tenants EXCEPT ![slug] = NewTenant(slug, kw)]
    /\ store' = IF opened THEN [store EXCEPT ![slug] = PartialFile] ELSE store
    /\ nextId' = nextId + 1
    /\ ret' = Result("create_tenant", slug,
                     IF opened THEN "TypeError" ELSE "OSError")
    /\ UNCHANGED <<got, now, containers, tracker, orchVars>>

update_tenant(slug, key, value) ==
    /\ IF tenants[slug] = NoTenant
       THEN /\ ret' = Result("update_tenant", slug, "None")
            /\ got' = NothingReturned
            /\ UNCHANGED <<tenants, store>>
       ELSE LET t == [SetAttr(tenants[slug], key, value)
                          EXCEPT !.updated_at = now]
            IN /\ tenants' = [tenants EXCEPT ![slug] = t]
               /\ store' = SaveTenant(store, t)
               /\ got' = Returned(t, FALSE)
               /\ ret' = Result("update_tenant", slug, "Tenant")
    /\ UNCHANGED <<nextId, now, containers, tracker, orchVars>>

\* a faulty variant: the lookup finds nothing
GetNothing(registry, slug) == NoTenant

\* self._tenants.get(slug)
GetTenant(registry, slug) == registry[slug]

get_tenant(slug) ==
    /\ got' = Returned(GetTenant(tenants, slug),
                       /\ ret.op = "create_tenant"
                       /\ ret.val = "Tenant"
                       /\ ret.arg = slug)
    /\ ret' = Result("get_tenant", slug,
                     IF GetTenant(tenants, slug) = NoTenant THEN "None"
                     ELSE "Tenant")
    /\ UNCHANGED <<tenants, store, nextId, now, containers, tracker, orchVars>>

\* list(self._tenants.values()): one record for each key; the keys are walked
\* in one fixed order here (the code walks them in insertion order)
SlugOrder == <<acme, acme_corp>>

RegistryValues(registry) ==
    LET keys == SelectSeq(SlugOrder, LAMBDA s : registry[s] # NoTenant)
    IN [i \in 1 .. Len(keys) |-> registry[keys[i]]]

\* a faulty variant: active_only is ignored
ListTenantsUnfiltered(registry, active_only) == RegistryValues(registry)

\* tenants = [t for t in tenants if t.active] when active_only
ListTenants(registry, active_only) ==
    IF active_only
    THEN SelectSeq(RegistryValues(registry), LAMBDA t : t.active)
    ELSE RegistryValues(registry)

\* how a call of list_tenants is recorded: list_tenants(active_only=True) or
\* list_tenants()
ActiveOnly == <<"active_only">>

list_tenants(active_only) ==
    /\ ret' = ListResult("list_tenants",
                         IF active_only THEN ActiveOnly ELSE NoProject,
                         ListTenants(tenants, active_only))
    /\ UNCHANGED <<registryVars, containers, tracker, orchVars>>

\* a faulty variant: delete_tenant answers True whatever the registry holds
DeleteReturnTrue(registry, slug) == "True"

\* if slug not in self._tenants: return False ... return True
DeleteReturn(registry, slug) ==
    IF registry[slug] = NoTenant THEN "False" ELSE "True"

\* the file <slug>.json is unlinked and the entry deleted, both by the key
delete_tenant(slug) ==
    /\ ret' = Result("delete_tenant", slug, DeleteReturn(tenants, slug))
    /\ IF tenants[slug] = NoTenant
       THEN UNCHANGED <<tenants, store>>
       ELSE /\ store' = [store EXCEPT ![slug] = NoFile]
            /\ tenants' = [tenants EXCEPT ![slug] = NoTenant]
    /\ UNCHANGED <<got, nextId, now, containers, tracker, orchVars>>

\* the process ends and a new TenantManager is built on the same storage
\* path: __init__ calls _load_tenants
restart ==
    /\ tenants' = _load_tenants(store)
    /\ got' = NothingReturned
    /\ ret' = Result("restart", NoProject, "TenantManager")
    /\ UNCHANGED <<store, nextId, now, containers, tracker, orchVars>>

\* the wall clock advances between calls
Tick ==
    /\ now < MaxClock
    /\ now' = now + 1
    /\ UNCHANGED <<tenants, store, got, nextId, containers, tracker, ret,
                   orchVars>>

\* ------------------------------------------------------- the Docker daemon
ContainerIds == Projects \X (1 .. MaxServices)

\* container.labels.get('com.docker.compose.project')
Label(c) == c[1]

\* client.containers.list(filters={'label': 'com.docker.compose.project=<p>'})
\* lists the running containers whose label equals p; all=True adds the exited
ListRunning(cs, p) == {c \in DOMAIN cs : Label(c) = p /\ cs[c] = "running"}
ListAll(cs, p) == {c \in DOMAIN cs : Label(c) = p /\ cs[c] # "absent"}

\* docker-compose up, run outside this program (deploy_compose leaves it to
\* "docker-compose CLI or Python library"): n containers labelled p come up
compose_up(p, n) ==
    /\ ListAll(containers, p) = {}
    /\ containers' = [c \in ContainerIds |->
                         IF Label(c) = p /\ c[2] <= n THEN "running"
                         ELSE containers[c]]
    /\ ret' = Result("compose_up", p, "up")
    /\ UNCHANGED <<registryVars, tracker, orchVars>>

\* ------------------------------------------------------ DeploymentManager
\* what the caller has been told about a project
NoRecord == [status |-> "absent", n |-> 0]

deploy_compose(p, m) ==
    /\ IF ValidManifest(m)
       THEN /\ ret' = Result("deploy_compose", p, "deployed")
            /\ tracker' = [tracker EXCEPT
                              ![p] = [status |-> "deployed", n |-> m.services]]
       ELSE /\ ret' = Result("deploy_compose", p, validate_compose_file(m))
            /\ UNCHANGED tracker
    /\ UNCHANGED <<registryVars, containers, orchVars>>

\* a direct call of validate_compose_file
validate(m) ==
    /\ ret' = Result("validate_compose_file", m, validate_compose_file(m))
    /\ UNCHANGED <<registryVars, containers, tracker, orchVars>>

\* a faulty variant: the exited containers are listed too
ListLabelledAll(cs) == {c \in DOMAIN cs : cs[c] # "absent"}

\* client.containers.list(filters={'label': 'com.docker.compose.project'}):
\* the running containers that carry the label, whatever its value
ListLabelled(cs) == {c \in DOMAIN cs : cs[c] = "running"}

\* the order in which the daemon hands a set of containers over
RECURSIVE SeqOf(_)
SeqOf(S) ==
    IF S = {} THEN <<>>
    ELSE LET x == CHOOSE x \in S : TRUE IN <<x>> \o SeqOf(S \ {x})

\* a faulty variant: the tenant filter lets every project through
MatchAny(project, tenant) == TRUE

\* project and (not tenant or project.startswith(f"{tenant}_"))
TenantMatch(project, tenant) ==
    /\ project # NoProject
    /\ tenant = NoProject \/ StartsWith(project, TenantPrefix(tenant))

\* deployments[project] = {'project_name': ..., 'containers': [], 'status':
\* 'running'}
Entry(project) ==
    [project_name |-> project, containers |-> <<>>, status |-> "running"]

\* the loop of list_deployments over the listed containers; deployments is
\* the dict it fills, kept as the sequence of its values
RECURSIVE Collect(_, _, _)
Collect(listing, tenant, deployments) ==
    IF listing = <<>> THEN deployments
    ELSE LET c == Head(listing)
             project == Label(c)
             known == \E i \in 1 .. Len(deployments) :
                         deployments[i].project_name = project
             with == IF known THEN deployments
                     ELSE Append(deployments, Entry(project))
             added == [i \in 1 .. Len(with) |->
                          IF with[i].project_name = project
                          THEN [with[i] EXCEPT !.containers = Append(@, c)]
                          ELSE with[i]]
         IN IF TenantMatch(project, tenant)
            THEN Collect(Tail(listing), tenant, added)
            ELSE Collect(Tail(listing), tenant, deployments)

ListDeployments(cs, tenant) == Collect(SeqOf(ListLabelled(cs)), tenant, <<>>)

\* list_deployments(tenant); list_deployments() is recorded with no tenant
list_deployments(tenant) ==
    /\ ret' = ListResult("list_deployments", tenant,
                         ListDeployments(containers, tenant))
    /\ UNCHANGED <<registryVars, containers, tracker, orchVars>>

\* a faulty variant: the label filter matches by prefix
StopByPrefix(cs, p) ==
    [c \in DOMAIN cs |->
        IF StartsWith(Label(c), p) /\ cs[c] = "running" THEN "exited"
        ELSE cs[c]]

\* for container in containers: container.stop()
StopContainers(cs, p) ==
    [c \in DOMAIN cs |-> IF c \in ListRunning(cs, p) THEN "exited" ELSE cs[c]]

\* a faulty variant: the second listing leaves out all=True
RemoveRunningOnly(cs, p) ==
    LET stopped == StopContainers(cs, p)
    IN [c \in DOMAIN cs |->
           IF c \in ListRunning(stopped, p) THEN "absent" ELSE stopped[c]]

\* stop_deployment, then for container in list(all=True): container.remove()
RemoveContainers(cs, p) ==
    LET stopped == StopContainers(cs, p)
    IN [c \in DOMAIN cs |->
           IF c \in ListAll(stopped, p) THEN "absent" ELSE stopped[c]]

\* a faulty variant: nothing to stop is reported as an error
StopReturnNotFound(cs, p) ==
    IF ListRunning(cs, p) = {} THEN "NotFound" ELSE "True"

\* return True, whatever was found
StopReturn(cs, p) == "True"
RemoveReturn(cs, p) == "True"

stop_deployment(p) ==
    /\ containers' = StopContainers(containers, p)
    /\ tracker' = [tracker EXCEPT
                      ![p] = IF @.status = "deployed"
                             THEN [@ EXCEPT !.status = "stopped"] ELSE @]
    /\ ret' = Result("stop_deployment", p, StopReturn(containers, p))
    /\ UNCHANGED <<registryVars, orchVars>>

remove_deployment(p) ==
    /\ containers' = RemoveContainers(containers, p)
    /\ tracker' = [tracker EXCEPT
                      ![p] = IF @.status \in {"deployed", "stopped"}
                             THEN [status |-> "removed", n |-> 0] ELSE @]
    /\ ret' = Result("remove_deployment", p, RemoveReturn(containers, p))
    /\ UNCHANGED <<registryVars, orchVars>>

\* ------------------------------------------------------------ Orchestrator
GoodManifest(n) == Manifest(TRUE, "mapping", <<"3", ".", "8">>, n)
BadVersionManifest(n) == Manifest(TRUE, "mapping", <<"2">>, n)

\* one entry of the list given to deploy_multiple: a dict with a project_name
\* and a compose_file, a dict without project_name, or something that is no dict
DeployDict(p, m) == [kind |-> "dict", project_name |-> p, compose_file |-> m]
NotADict == [kind |-> "other", project_name |-> NoProject,
             compose_file |-> GoodManifest(1)]

DeploySpecs ==
    { DeployDict(acme_app1, GoodManifest(MaxServices)),
      DeployDict(acme_app2, GoodManifest(1)),
      DeployDict(acme_app2, BadVersionManifest(1)),
      NotADict }

HealthNames == {acme_app1, acme_app2}

SeqsUpTo(S, n) == UNION {[1 .. k -> S] : k \in 0 .. n}

\* what one unit produced: a returned value or the exception it raised
Outcome(exc, p, status) == [exc |-> exc, project_name |-> p, status |-> status]
NoOutcome == Outcome("", NoProject, "")

\* a faulty variant: the payload leaves the project name out
DeploySingleNoName(d) ==
    IF d.kind = "dict"
    THEN Outcome("", NoProject, "success")
    ELSE Outcome("AttributeError", NoProject, "")

\* deployment.get('project_name') raises AttributeError on a non-dict
_deploy_single(d) ==
    IF d.kind = "dict"
    THEN Outcome("", d.project_name, "success")
    ELSE Outcome("AttributeError", NoProject, "")

_health_check_single(name) == Outcome("", NoProject, "True")

IdleBatch ==
    [state |-> "idle", input |-> <<>>, fut |-> <<>>, out |-> <<>>,
     exc |-> "", result |-> <<>>, next |-> 0, atcancel |-> <<>>]

Batch(b) == IF b = "d" THEN dbatch ELSE hbatch

SetBatch(b, new) ==
    IF b = "d" THEN dbatch' = new /\ UNCHANGED hbatch
    ELSE hbatch' = new /\ UNCHANGED dbatch

Units(b) == {<<b, i>> : i \in 1 .. Len(Batch(b).fut)}
AllUnits == Units("d") \cup Units("h")
FutOf(u) == Batch(u[1]).fut[u[2]]
Running == {u \in AllUnits : FutOf(u) = "running"}

\* for each entry: loop.run_in_executor(self.executor, fn, entry)
Submitted(b, input) ==
    [IdleBatch EXCEPT !.state = "inflight", !.input = input,
                      !.fut = [i \in 1 .. Len(input) |-> "pending"],
                      !.out = [i \in 1 .. Len(input) |-> NoOutcome]]

\* a faulty variant: the last entry is never handed to the pool
EnqueueAllButLast(q, b, n) == q \o [i \in 1 .. n - 1 |-> <<b, i>>]

Enqueue(q, b, n) == q \o [i \in 1 .. n |-> <<b, i>>]

deploy_multiple(deployments) ==
    /\ dbatch.state = "idle"
    /\ dbatch' = Submitted("d", deployments)
    /\ queue' = Enqueue(queue, "d", Len(deployments))
    /\ UNCHANGED <<registryVars, containers, tracker, ret, max_workers, hbatch>>

health_check_all(project_names) ==
    /\ hbatch.state = "idle"
    /\ hbatch' = Submitted("h", project_names)
    /\ queue' = Enqueue(queue, "h", Len(project_names))
    /\ UNCHANGED <<registryVars, containers, tracker, ret, max_workers, dbatch>>

\* a faulty variant: a thread is started for every work item
WorkerIdleUnbounded == TRUE

\* ThreadPoolExecutor(max_workers=max_workers): at most max_workers threads,
\* each running one work item at a time
WorkerIdle == Cardinality(Running) < max_workers

\* a worker thread takes the oldest work item; an item whose future was
\* cancelled meanwhile is dropped without running
worker_take ==
    /\ queue # <<>>
    /\ WorkerIdle
    /\ LET u == Head(queue)
           bt == Batch(u[1])
       IN /\ queue' = Tail(queue)
          /\ IF bt.fut[u[2]] = "pending"
             THEN SetBatch(u[1], [bt EXCEPT !.fut[u[2]] = "running"])
             ELSE UNCHANGED <<dbatch, hbatch>>
    /\ UNCHANGED <<registryVars, containers, tracker, ret, max_workers>>

UnitResult(b, x) ==
    IF b = "d" THEN _deploy_single(x) ELSE _health_check_single(x)

worker_finish(u) ==
    /\ u \in Running
    /\ LET bt == Batch(u[1])
       IN SetBatch(u[1], [bt EXCEPT !.fut[u[2]] = "finished",
                                    !.out[u[2]] = UnitResult(u[1], bt.input[u[2]])])
    /\ UNCHANGED <<registryVars, containers, tracker, ret, max_workers, queue>>

\* a faulty variant: gather without return_exceptions, the first exception propagates
GatherRaising(outs) ==
    IF \E i \in 1 .. Len(outs) : outs[i].exc # ""
    THEN [exc |-> outs[CHOOSE i \in 1 .. Len(outs) :
                          /\ outs[i].exc # ""
                          /\ \A j \in 1 .. i - 1 : outs[j].exc = ""].exc,
          result |-> <<>>]
    ELSE [exc |-> "", result |-> outs]

\* asyncio.gather(*tasks, return_exceptions=True): the outcomes in the order
\* of the input, an exception standing in the place of the unit that raised
Gather(outs) == [exc |-> "", result |-> outs]

AllFinished(bt) == \A i \in 1 .. Len(bt.fut) : bt.fut[i] = "finished"

deploy_return ==
    /\ dbatch.state = "inflight"
    /\ AllFinished(dbatch)
    /\ dbatch' = [dbatch EXCEPT !.state = "returned",
                                !.exc = Gather(dbatch.out).exc,
                                !.result = Gather(dbatch.out).result]
    /\ UNCHANGED <<registryVars, containers, tracker, ret, max_workers, queue,
                   hbatch>>

\* dict(zip(project_names, results)): a later pair with the same key wins
DictZip(keys, values) ==
    LET n == IF Len(keys) < Len(values) THEN Len(keys) ELSE Len(values)
        last(k) == CHOOSE i \in 1 .. n :
                      /\ keys[i] = k
                      /\ \A j \in 1 .. n : keys[j] = k => j <= i
    IN [k \in {keys[i] : i \in 1 .. n} |-> values[last(k)]]

health_return ==
    /\ hbatch.state = "inflight"
    /\ AllFinished(hbatch)
    /\ hbatch' = [hbatch EXCEPT
                     !.state = "returned",
                     !.exc = Gather(hbatch.out).exc,
                     !.result = DictZip(hbatch.input, Gather(hbatch.out).result)]
    /\ UNCHANGED <<registryVars, containers, tracker, ret, max_workers, queue,
                   dbatch>>

\* Cancelling the task that awaits gather: gather cancels its children, and the
\* event loop then runs, child by child, the callback that passes the
\* cancellation on to the executor's future (Future.cancel succeeds only on a
\* future that is not running); the coroutine sees CancelledError after that.
cancel(b) ==
    /\ Batch(b).state = "inflight"
    /\ SetBatch(b, [Batch(b) EXCEPT !.state = "cancelling", !.next = 1,
                                    !.atcancel = Batch(b).fut])
    /\ UNCHANGED <<registryVars, containers, tracker, ret, max_workers, queue>>

\* a faulty variant: the cancellation is not passed on to the executor's future
FutureCancelNoop(f) == f

FutureCancel(f) == IF f = "pending" THEN "cancelled" ELSE f

cancel_propagate(b) ==
    /\ Batch(b).state = "cancelling"
    /\ Batch(b).next <= Len(Batch(b).fut)
    /\ LET bt == Batch(b)
       IN SetBatch(b, [bt EXCEPT !.fut[bt.next] = FutureCancel(bt.fut[bt.next]),
                                 !.next = bt.next + 1])
    /\ UNCHANGED <<registryVars, containers, tracker, ret, max_workers, queue>>

cancel_observed(b) ==
    /\ Batch(b).state = "cancelling"
    /\ Batch(b).next > Len(Batch(b).fut)
    /\ SetBatch(b, [Batch(b) EXCEPT !.state = "cancelled",
                                    !.exc = "CancelledError"])
    /\ UNCHANGED <<registryVars, containers, tracker, ret, max_workers, queue>>

\* ---------------------------------------------------------- specifications
EmptyRegistry == [s \in Slugs |-> NoTenant]
NoContainers == [c \in ContainerIds |-> "absent"]
NoRet ==
    [op |-> "", arg |-> NoProject, val |-> "", rep |-> FALSE, list |-> <<>>]

InitManager ==
    /\ containers = NoContainers
    /\ tracker = [p \in Projects |-> NoRecord]
    /\ ret = NoRet

InitOrchestrator ==
    /\ max_workers \in 1 .. MaxWorkers
    /\ queue = <<>>
    /\ dbatch = IdleBatch
    /\ hbatch = IdleBatch

\* a fresh TenantManager on an empty storage directory
InitRegistry ==
    /\ tenants = EmptyRegistry
    /\ store = EmptyStore
    /\ got = NothingReturned
    /\ nextId = 1
    /\ now = 0

\* a TenantManager whose storage directory already holds tenant acme
LoadedTenant ==
    [NoTenant EXCEPT !.id = 1, !.slug = acme, !.active = TRUE,
                     !.max_deployments = MaxQuota, !.max_containers = MaxQuota]

InitLoadedRegistry ==
    /\ tenants = [EmptyRegistry EXCEPT ![acme] = LoadedTenant]
    /\ store = [s \in Slugs |-> to_dict(tenants[s])]
    /\ got = NothingReturned
    /\ nextId = 2
    /\ now = 0

Init == InitRegistry /\ InitManager /\ InitOrchestrator /\ max_workers = 1

\* tenant acme and its projects
Next ==
    \/ \E kw \in CreateKwargs : create_tenant(acme, kw)
    \/ \E k \in UpdateKeys \ {"active"} :
          \E v \in UpdateValues(k) : update_tenant(acme, k, v)
    \/ \E p \in {acme_app1, acme_app2}, m \in Manifests : deploy_compose(p, m)
    \/ \E p \in {acme_app1, acme_app2} : stop_deployment(p)
    \/ \E p \in {acme_app1, acme_app2} : remove_deployment(p)
    \/ Tick

Spec == Init /\ [][Next]_vars

\* the deployment manager against a Docker daemon
InitRuntime == InitRegistry /\ InitManager /\ InitOrchestrator /\ max_workers = 1

NextRuntime ==
    \/ \E p \in Projects, n \in 1 .. MaxServices : compose_up(p, n)
    \/ \E p \in Projects : stop_deployment(p)
    \/ \E p \in Projects : remove_deployment(p)

SpecRuntime == InitRuntime /\ [][NextRuntime]_vars

\* the orchestrator's batches on its thread pool
InitOrch == InitLoadedRegistry /\ InitManager /\ InitOrchestrator

NextOrch ==
    \/ \E ds \in SeqsUpTo(DeploySpecs, MaxBatch) : deploy_multiple(ds)
    \/ \E ns \in SeqsUpTo(HealthNames, MaxBatch) : health_check_all(ns)
    \/ worker_take
    \/ \E u \in AllUnits : worker_finish(u)
    \/ deploy_return
    \/ health_return

SpecOrch == InitOrch /\ [][NextOrch]_vars

\* batches of entries that succeed and entries that raise, under a fair pool
\* and event loop: an idle worker thread takes a queued item, a running unit
\* comes to its end, and a coroutine whose gather is complete is resumed
NextOrchFair ==
    \/ \E ds \in SeqsUpTo({DeployDict(acme_app1, GoodManifest(1)), NotADict},
                           MaxBatch) : deploy_multiple(ds)
    \/ \E ns \in SeqsUpTo({acme_app1}, MaxBatch) : health_check_all(ns)
    \/ worker_take
    \/ \E u \in AllUnits : worker_finish(u)
    \/ deploy_return
    \/ health_return

FairOrch ==
    /\ WF_vars(worker_take)
    /\ \A u \in {"d", "h"} \X (1 .. MaxBatch) : WF_vars(worker_finish(u))
    /\ WF_vars(deploy_return)
    /\ WF_vars(health_return)

SpecOrchFair == InitOrch /\ [][NextOrchFair]_vars /\ FairOrch

\* one batch at a time, which its caller may cancel
NextCancel ==
    \/ \E ds \in SeqsUpTo(DeploySpecs, MaxBatch) :
          hbatch.state = "idle" /\ deploy_multiple(ds)
    \/ \E ns \in SeqsUpTo(HealthNames, MaxBatch) :
          dbatch.state = "idle" /\ health_check_all(ns)
    \/ worker_take
    \/ \E u \in AllUnits : worker_finish(u)
    \/ deploy_return
    \/ health_return
    \/ \E b \in {"d", "h"} : cancel(b)
    \/ \E b \in {"d", "h"} : cancel_propagate(b)
    \/ \E b \in {"d", "h"} : cancel_observed(b)

SpecCancel == InitOrch /\ [][NextCancel]_vars

\* deploy_compose next to the teardown calls, against a Docker daemon on
\* which project acme_app1 comes up
NextDeploy ==
    \/ \E n \in 1 .. MaxServices : compose_up(acme_app1, n)
    \/ \E p \in {acme_app1, acme_app2}, m \in Manifests : deploy_compose(p, m)
    \/ \E p \in {acme_app1, acme_app2} : stop_deployment(p)
    \/ \E p \in {acme_app1, acme_app2} : remove_deployment(p)

SpecDeploy == InitRuntime /\ [][NextDeploy]_vars

\* the listing of deployments next to the teardown calls
NextListDeployments ==
    \/ \E p \in Projects, n \in 1 .. MaxServices : compose_up(p, n)
    \/ \E p \in Projects : stop_deployment(p)
    \/ \E p \in Projects : remove_deployment(p)
    \/ \E t \in Slugs \cup {NoProject} : list_deployments(t)

SpecListDeployments == InitRuntime /\ [][NextListDeployments]_vars

\* the tenant registry as its callers are meant to use it
NextTenant ==
    \/ \E s \in Slugs, kw \in CreateKwargs :
          kw.max_containers = MaxQuota /\ create_tenant(s, kw)
    \/ \E s \in Slugs, k \in {"max_deployments", "nonexistent"} :
          \E v \in UpdateValues(k) : update_tenant(s, k, v)
    \/ \E s \in Slugs : get_tenant(s)
    \/ \E s \in Slugs : delete_tenant(s)
    \/ restart
    \/ Tick

SpecTenant == Init /\ [][NextTenant]_vars

\* the tenant registry when update_tenant is handed the identity fields and
\* the creation stamp
FullQuota == [max_deployments |-> MaxQuota, max_containers |-> MaxQuota]

NextSetattr ==
    \/ \E s \in Slugs : create_tenant(s, FullQuota)
    \/ \E s \in Slugs, k \in IdentityKeys \cup StampKeys :
          \E v \in UpdateValues(k) : update_tenant(s, k, v)
    \/ \E s \in Slugs : delete_tenant(s)
    \/ restart

SpecSetattr == Init /\ [][NextSetattr]_vars

\* the registry and its listing, update_tenant being handed the active flag
\* and the slug
NextListTenants ==
    \/ \E s \in Slugs : create_tenant(s, FullQuota)
    \/ \E s \in Slugs, k \in {"active", "slug"} :
          \E v \in UpdateValues(k) : update_tenant(s, k, v)
    \/ \E s \in Slugs : delete_tenant(s)
    \/ \E b \in BOOLEAN : list_tenants(b)

SpecListTenants == Init /\ [][NextListTenants]_vars

\* the registry when saving a new record may fail
NextCreateFails ==
    \/ \E s \in Slugs : create_tenant(s, FullQuota)
    \/ \E s \in Slugs, opened \in BOOLEAN :
          create_tenant_save_raises(s, FullQuota, opened)
    \/ \E s \in Slugs : get_tenant(s)
    \/ \E s \in Slugs : delete_tenant(s)

SpecCreateFails == Init /\ [][NextCreateFails]_vars

\* validate_compose_file on every compose file
NextValidate == \E m \in AllManifests : validate(m)

SpecValidate == Init /\ [][NextValidate]_vars

\* ------------------------------------------------------------------ claims
RECURSIVE SumOver(_, _)
SumOver(S, f) ==
    IF S = {} THEN 0
    ELSE LET x == CHOOSE x \in S : TRUE IN f[x] + SumOver(S \ {x}, f)

Present(t) == tenants[t] # NoTenant

\* the only tie between a project and a tenant: the prefix "<tenant>_"
OwnedBy(p, t) == StartsWith(p, TenantPrefix(t))

Indices(bt) == 1 .. Len(bt.input)
Succeeded(o) == o.exc = "" /\ o.status = "success"

\* C1: the deploy requests of one tenant that a batch admits (reports as
\* success) need, together, no more containers than the tenant's
\* max_containers, when each of them alone fits.
C1_NoDoubleAdmission ==
    dbatch.state = "returned" =>
        \A t \in Slugs :
            LET reqs == {i \in Indices(dbatch) :
                            /\ dbatch.input[i].kind = "dict"
                            /\ OwnedBy(dbatch.input[i].project_name, t)
                            /\ ValidManifest(dbatch.input[i].compose_file)}
                need == [i \in reqs |-> dbatch.input[i].compose_file.services]
                admitted == {i \in reqs : Succeeded(dbatch.result[i])}
            IN (Present(t) /\ \A i \in reqs : need[i] <= tenants[t].max_containers)
                   => SumOver(admitted, need) <= tenants[t].max_containers

\* C2: in every state, a tenant's deployments are at most max_deployments
\* and their containers at most max_containers.
DeploymentsOf(t) ==
    {p \in Projects : OwnedBy(p, t) /\ tracker[p].status = "deployed"}

C2_QuotaInvariant ==
    \A t \in Slugs :
        Present(t) =>
            /\ Cardinality(DeploymentsOf(t)) <= tenants[t].max_deployments
            /\ SumOver(DeploymentsOf(t), [p \in Projects |-> tracker[p].n])
                   <= tenants[t].max_containers

\* C3: with max_deployments=1 and max_containers=2, while acme_app1 (2
\* containers) is deployed a deploy of acme_app2 with a valid manifest fails
\* with QuotaExceededError; once acme_app1 is removed it succeeds.
ScenarioTenant ==
    /\ Present(acme)
    /\ tenants[acme].max_deployments = 1
    /\ tenants[acme].max_containers = 2

SecondDeployAnswered ==
    /\ ret.op = "deploy_compose"
    /\ ret.arg = acme_app2
    /\ ret.val \notin {"FileNotFoundError", "AttributeError", VersionError,
                      ServicesError}

C3_QuotaScenario ==
    (ScenarioTenant /\ SecondDeployAnswered) =>
        /\ (tracker[acme_app1] = [status |-> "deployed", n |-> 2])
               => ret.val = "QuotaExceededError"
        /\ tracker[acme_app1].status = "removed" => ret.val = "deployed"

\* C4: deploy_multiple returns a list with one entry per input entry, each a
\* success payload or the exception of its unit; a unit that raised does not
\* make deploy_multiple raise, and every other unit's entry is what that unit
\* yields on its own.
C4_BatchIsolation ==
    dbatch.state = "returned" =>
        /\ dbatch.exc = ""
        /\ Len(dbatch.result) = Len(dbatch.input)
        /\ \A i \in Indices(dbatch) :
              /\ Succeeded(dbatch.result[i]) \/ dbatch.result[i].exc # ""
              /\ dbatch.input[i].kind = "dict" =>
                    dbatch.result[i] =
                        Outcome("", dbatch.input[i].project_name, "success")

C4_Witness ==
    /\ dbatch.state = "returned"
    /\ \E i, j \in Indices(dbatch) :
          /\ dbatch.result[i].exc # ""
          /\ Succeeded(dbatch.result[j])

\* C5: a batch of N dicts of which exactly one has an invalid manifest returns
\* N entries: N-1 successes and one failure, for the invalid one, tagged as a
\* validation error.
C5_OneValidationError ==
    LET invalid == {i \in Indices(dbatch) :
                       ~ValidManifest(dbatch.input[i].compose_file)}
    IN (/\ dbatch.state = "returned"
        /\ \A i \in Indices(dbatch) : dbatch.input[i].kind = "dict"
        /\ Cardinality(invalid) = 1)
       => /\ Len(dbatch.result) = Len(dbatch.input)
          /\ \A i \in Indices(dbatch) :
                IF i \in invalid
                THEN dbatch.result[i].exc \in
                         {VersionError, ServicesError, "ValidationError"}
                ELSE Succeeded(dbatch.result[i])

\* C6: the returned collection is a bijection with the input list by project
\* name: every input entry has exactly one outcome carrying its name and every
\* outcome carries the name of exactly one input entry.
DeployBijection ==
    LET named(i) == IF dbatch.input[i].kind = "dict"
                    THEN dbatch.input[i].project_name ELSE NoProject
        outs == 1 .. Len(dbatch.result)
        carries(j, i) == /\ named(i) # NoProject
                         /\ dbatch.result[j].project_name = named(i)
    IN /\ \A i \in Indices(dbatch) :
             Cardinality({j \in outs : carries(j, i)}) = 1
       /\ \A j \in outs :
             Cardinality({i \in Indices(dbatch) : carries(j, i)}) = 1

HealthBijection ==
    LET keys == DOMAIN hbatch.result
    IN /\ \A i \in Indices(hbatch) :
             Cardinality({k \in keys : k = hbatch.input[i]}) = 1
       /\ \A k \in keys :
             Cardinality({i \in Indices(hbatch) : hbatch.input[i] = k}) = 1

DistinctNames(names) ==
    \A i, j \in 1 .. Len(names) : names[i] = names[j] => i = j

DeployNamesDistinct ==
    /\ \A i \in Indices(dbatch) : dbatch.input[i].kind = "dict"
    /\ DistinctNames([i \in Indices(dbatch) |-> dbatch.input[i].project_name])

C7_BoundedWorkers == Cardinality(Running) <= max_workers

C7_Witness ==
    /\ Cardinality(Running) = max_workers
    /\ \E u \in Units("d") : FutOf(u) = "running"
    /\ \E u \in Units("h") : FutOf(u) = "running"
    /\ \E u \in AllUnits : FutOf(u) = "pending"

\* C8: a unit that is executing is never taken off its run (it stays running
\* until it is finished), also across a cancellation; and once the batch has
\* seen its cancellation no unit of it that is not executing starts.
C8_CancelSemantics ==
    [][\A b \in {"d", "h"} :
          \A i \in 1 .. Len(Batch(b).fut) :
              /\ Batch(b).fut[i] = "running"
                     => Batch(b)'.fut[i] \in {"running", "finished"}
              /\ (Batch(b).state = "cancelled" /\ Batch(b).fut[i] # "running")
                     => Batch(b)'.fut[i] # "running"]_vars

C8_Witness ==
    \E b \in {"d", "h"} :
        /\ Batch(b).state = "cancelled"
        /\ \E i, j \in 1 .. Len(Batch(b).fut) :
              /\ Batch(b).atcancel[i] = "running"
              /\ Batch(b).fut[i] = "finished"
              /\ Batch(b).atcancel[j] = "pending"
              /\ Batch(b).fut[j] = "cancelled"
              /\ <<b, j>> \notin {queue[k] : k \in 1 .. Len(queue)}

\* C9: no two units working on the same project name are executing at the
\* same time.
C9_SameProjectSerial ==
    \A u, v \in Running \cap Units("d") :
        (/\ dbatch.input[u[2]].kind = "dict"
         /\ dbatch.input[v[2]].kind = "dict"
         /\ dbatch.input[u[2]].project_name = dbatch.input[v[2]].project_name)
            => u = v

\* C10: a stop_deployment or remove_deployment that follows the same call on
\* the same project returns True, as the first did, and leaves every
\* container as the first call left it.
TeardownOps == {"stop_deployment", "remove_deployment"}

C10_TeardownIdempotent ==
    [][(ret'.op \in TeardownOps /\ ret'.rep)
          => /\ ret.val = "True"
             /\ ret'.val = "True"
             /\ containers' = containers]_vars

C10_Witness ==
    /\ ret.op = "stop_deployment"
    /\ ret.rep
    /\ ListAll(containers, ret.arg) # {}
    /\ \E p \in Projects : ListRunning(containers, p) # {}

\* C12: validate_compose_file returns True for every manifest whose version
\* starts with "3" and whose services section holds at least one service; it
\* raises the unsupported-version error for any other version prefix and the
\* missing-services error when the services section is absent or empty.
Validated(m) ==
    /\ ret.op = "validate_compose_file"
    /\ ret.arg = m

C12_ValidateContract ==
    \A m \in AllManifests :
        (/\ Validated(m)
         /\ m.exists /\ m.kind = "mapping"
         /\ m.version \notin {<<"absent">>, <<"int">>})
        => ret.val = IF ~StartsWith(m.version, <<"3">>) THEN VersionError
                     ELSE IF m.services < 1 THEN ServicesError
                     ELSE "True"

\* C13: a manifest whose content is not a mapping is rejected with the parse
\* error, one of the validation errors, never with an unclassified error.
ValidationErrors == {"ParseError", VersionError, ServicesError}

C13_ParseError ==
    \A m \in AllManifests :
        (Validated(m) /\ m.exists /\ m.kind = "other")
            => ret.val \in ValidationErrors

\* C11: the lifecycle state of a deployment only moves along
\* Pending -> Deployed -> Stopping -> Stopped -> Removing -> Removed (or to
\* Failed); seen from the caller, who is told of Deployed, Stopped and
\* Removed, a project's status only steps from nothing or Removed to
\* Deployed, from Deployed to Stopped or (through the stop inside
\* remove_deployment) to Removed, and from Stopped to Removed.
LifecycleEdges ==
    {<<"absent", "deployed">>, <<"removed", "deployed">>,
     <<"deployed", "stopped">>, <<"deployed", "removed">>,
     <<"stopped", "removed">>}

C11_LifecycleChain ==
    [][\A p \in Projects :
          tracker'[p].status # tracker[p].status
              => <<tracker[p].status, tracker'[p].status>> \in LifecycleEdges]_vars

\* C14: when the manifest handed to deploy_compose fails validation, the
\* call raises that validation error at once, reports no deployment, and
\* leaves the runtime, the registry and everything else as they were.
C14_ValidateFirst ==
    [][ret'.op = "deploy_compose"
       => \A m \in Manifests :
             (deploy_compose(ret'.arg, m) /\ validate_compose_file(m) # "True")
                 => /\ ret'.val = validate_compose_file(m)
                    /\ ret'.val # "deployed"
                    /\ UNCHANGED <<tracker, containers, registryVars,
                                   orchVars>>]_vars

C14_Witness ==
    /\ ret.op = "deploy_compose"
    /\ \E c \in ContainerIds : containers[c] = "running"
    /\ \E q \in Projects : tracker[q].status = "deployed"
    /\ ret.val \in {"FileNotFoundError", "AttributeError", VersionError,
                    ServicesError}

\* C15: create_tenant on a slug the registry already holds raises the
\* duplicate error (ValueError) and changes neither the registry, nor the
\* existing record, nor the files.
C15_DuplicateRejected ==
    [][(/\ ret'.op = "create_tenant"
        /\ ret' # ret
        /\ tenants[ret'.arg] # NoTenant)
       => /\ ret'.val = "ValueError"
          /\ UNCHANGED <<tenants, store, got, nextId>>]_vars

C15_Witness ==
    /\ ret.op = "create_tenant"
    /\ ret.val = "ValueError"
    /\ tenants[ret.arg] # NoTenant

\* C16: a get_tenant(slug) that follows a successful create_tenant of that
\* slug returns a record, equal field for field to the one create_tenant
\* returned, its stamps not earlier than the returned ones.
C16_CreateGetRoundTrip ==
    [][(/\ ret.op = "create_tenant"
        /\ ret.val = "Tenant"
        /\ ret'.op = "get_tenant"
        /\ ret'.arg = ret.arg)
       => /\ got'.rec # NoTenant
          /\ got'.rec = got.rec
          /\ got'.rec.created_at >= got.rec.created_at
          /\ got'.rec.updated_at >= got.rec.updated_at]_vars

C16_Witness ==
    /\ ret.op = "get_tenant"
    /\ got.after_create
    /\ got.rec # NoTenant

C18_IdentityImmutable ==
    [][\A s \in Slugs :
          (/\ ret'.op = "update_tenant"
           /\ ret'.arg = s
           /\ tenants[s] # NoTenant
           /\ tenants'[s] # NoTenant)
          => /\ tenants'[s].slug = tenants[s].slug
             /\ tenants'[s].id = tenants[s].id]_vars

\* C19: every record of the registry has updated_at >= created_at.
C19_StampOrder ==
    \A s \in Slugs :
        tenants[s] # NoTenant => tenants[s].updated_at >= tenants[s].created_at

\* C20: delete_tenant(slug) returns True exactly when the registry held the
\* slug; afterwards get_tenant(slug) finds nothing, every other record is as
\* it was, and a delete_tenant(slug) repeated at once returns False.
C20_DeleteContract ==
    [][(ret'.op = "delete_tenant" /\ ret' # ret)
       => /\ ret'.val = (IF tenants[ret'.arg] # NoTenant THEN "True"
                         ELSE "False")
          /\ GetTenant(tenants', ret'.arg) = NoTenant
          /\ \A o \in Slugs \ {ret'.arg} : tenants'[o] = tenants[o]
          /\ (ret'.rep => ret'.val = "False")]_vars

C20_Witness ==
    /\ ret.op = "delete_tenant"
    /\ ret.rep
    /\ ret.val = "False"
    /\ nextId > 1
    /\ \E o \in Slugs \ {ret.arg} : tenants[o] # NoTenant

\* C21: every deployment is owned by a tenant that is in the registry and
\* active; deploy_compose for a project of a tenant that is missing or
\* inactive creates no deployment.
C21_OwnerExists ==
    \A p \in Projects :
        tracker[p].status = "deployed"
            => \E t \in Slugs :
                  OwnedBy(p, t) /\ Present(t) /\ tenants[t].active

\* C22: list_tenants() returns the records of the registry, one for each
\* slug created and not deleted (a successful create_tenant makes the list
\* one longer, a successful delete_tenant one shorter, no other call changes
\* its length), and list_tenants(active_only=True) returns those of them
\* that are active.
Listed(registry, active_only) ==
    {s \in Slugs : /\ registry[s] # NoTenant
                   /\ active_only => registry[s].active}

OnePerSlug(list, registry, slugs) ==
    \E f \in [1 .. Len(list) -> slugs] :
        /\ \A s \in slugs : \E i \in 1 .. Len(list) : f[i] = s
        /\ \A i, j \in 1 .. Len(list) : f[i] = f[j] => i = j
        /\ \A i \in 1 .. Len(list) : list[i] = registry[f[i]]

Created == IF ret'.op = "create_tenant" /\ ret'.val = "Tenant" /\ ret' # ret
           THEN 1 ELSE 0

Deleted == IF ret'.op = "delete_tenant" /\ ret'.val = "True" /\ ret' # ret
           THEN 1 ELSE 0

C22_ListTenants ==
    [][/\ ret'.op = "list_tenants"
            => OnePerSlug(ret'.list, tenants',
                          Listed(tenants', ret'.arg = ActiveOnly))
       /\ Len(ListTenants(tenants', FALSE))
              = Len(ListTenants(tenants, FALSE)) + Created - Deleted]_vars

C22_Witness ==
    /\ ret.op = "list_tenants"
    /\ ret.arg = ActiveOnly
    /\ Len(ret.list) = 1
    /\ \A s \in Slugs : tenants[s] # NoTenant

\* the projects that have a running container, and the names listed
Active == {p \in Projects : ListRunning(containers, p) # {}}
ListedNames == {ret.list[i].project_name : i \in 1 .. Len(ret.list)}

\* C23: list_deployments(tenant) returns the active deployments whose
\* project name starts with "<tenant>_", all of them and no other, and
\* list_deployments() returns every active deployment.
C23_PrefixFilter ==
    ret.op = "list_deployments"
        => ListedNames =
              {p \in Active :
                  ret.arg = NoProject \/ StartsWith(p, ret.arg \o <<"_">>)}

C23_Witness ==
    /\ ret.op = "list_deployments"
    /\ ret.arg = acme_corp
    /\ ListedNames = {acme_corp_app1}
    /\ acme_app1 \in Active

\* the projects a tenant has deployed
ProjectsOf(t) ==
    IF t = acme THEN {acme_app1, acme_app2, acme_app1_db}
    ELSE {acme_corp_app1}

\* C26: list_deployments(T) never contains a deployment of another tenant.
C26_ListingIsolation ==
    (ret.op = "list_deployments" /\ ret.arg \in Slugs)
        => ListedNames \subseteq ProjectsOf(ret.arg)

\* C29: list_deployments returns one entry, with status running, for each
\* project label found among the running containers; every running
\* container is named once, in the entry of its own project, and a project
\* whose containers are all stopped has no entry.
ListedAt(c) ==
    {<<i, k>> \in (1 .. Len(ret.list)) \X (1 .. MaxServices) :
        /\ k <= Len(ret.list[i].containers)
        /\ ret.list[i].containers[k] = c}

C29_OneEntryPerProject ==
    (ret.op = "list_deployments" /\ ret.arg = NoProject)
        => /\ ListedNames = Active
           /\ \A i, j \in 1 .. Len(ret.list) :
                 ret.list[i].project_name = ret.list[j].project_name => i = j
           /\ \A i \in 1 .. Len(ret.list) :
                 /\ ret.list[i].status = "running"
                 /\ Len(ret.list[i].containers) =
                        Cardinality(ListRunning(containers,
                                                ret.list[i].project_name))
           /\ \A c \in ContainerIds :
                 IF containers[c] = "running"
                 THEN /\ Cardinality(ListedAt(c)) = 1
                      /\ \A x \in ListedAt(c) :
                            ret.list[x[1]].project_name = Label(c)
                 ELSE ListedAt(c) = {}

C29_Witness ==
    /\ ret.op = "list_deployments"
    /\ ret.arg = NoProject
    /\ \E p \in Projects :
          ListAll(containers, p) # {} /\ ListRunning(containers, p) = {}
    /\ \E i \in 1 .. Len(ret.list) : Len(ret.list[i].containers) > 1
    /\ Len(ret.list) > 1

\* C24: stop_deployment(P) leaves every container of P in place, the
\* running ones now exited; when remove_deployment(P) returns, no container
\* labelled P is left, running or exited.
C24_StopKeepsRemoveClears ==
    [][/\ ret'.op = "stop_deployment"
            => /\ ListAll(containers', ret'.arg) = ListAll(containers, ret'.arg)
               /\ ListRunning(containers', ret'.arg) = {}
       /\ ret'.op = "remove_deployment"
            => ListAll(containers', ret'.arg) = {}]_vars

C24_Witness ==
    /\ ret.op = "stop_deployment"
    /\ ListAll(containers, ret.arg) # {}
    /\ ListRunning(containers, ret.arg) = {}

\* C28: stop_deployment(P) and remove_deployment(P) change no container
\* whose label is not exactly P, those of a project whose name begins with P
\* included.
C28_ExactLabel ==
    [][ret'.op \in TeardownOps
          => \A c \in ContainerIds :
                Label(c) # ret'.arg => containers'[c] = containers[c]]_vars

C28_Witness ==
    /\ ret.op \in TeardownOps
    /\ ret.arg = acme_app1
    /\ ListRunning(containers, acme_app1) = {}
    /\ ListRunning(containers, acme_app1_db) # {}
    /\ ~ret.rep

C27_FailedCreateNoEffect ==
    [][(ret'.op = "create_tenant" /\ ret'.val # "Tenant" /\ ret' # ret)
          => UNCHANGED <<tenants, store>>]_vars

\* C30: under a fair pool, with every unit coming to an end, a
\* deploy_multiple and a health_check_all that have been called eventually
\* return, whatever the length of the list and the number of workers, units
\* that fail included.
C30_Termination ==
    /\ (dbatch.state = "inflight") ~> (dbatch.state = "returned")
    /\ (hbatch.state = "inflight") ~> (hbatch.state = "returned")

C30_Witness ==
    /\ dbatch.state = "returned"
    /\ hbatch.state = "returned"
    /\ Len(dbatch.input) > max_workers
    /\ Len(hbatch.input) > max_workers
    /\ \E i \in 1 .. Len(dbatch.result) : dbatch.result[i].exc # ""

====
